---- MODULE Spec2Model ----
(***************************************************************************)
(* Model of the Ising-model repository: the Spin enum (spin.rs), the Grid  *)
(* lattice with periodic indexing, site energies and the Metropolis update *)
(* (grid.rs), and the driver's own sweep over a Vec<Vec<i32>> (main.rs).   *)
(*                                                                         *)
(* Numbers.  f64 values are kept in fixed point.  Spins project to +1/-1.  *)
(* Couplings, fields and energies are integers counting hundredths (the    *)
(* driver's 0.44 is 44, the tests' 1.0 is 100); products of a spin sum and *)
(* such a value are exact.  Probabilities and random draws count           *)
(* millionths (1.0 is 1000000, a draw of [0,1) is one of 0..999999).       *)
(* exp is computed from tables of exp(q) and exp(r/100) and rounded down   *)
(* to a millionth, except that a result which is positive in f64 is never  *)
(* rounded to 0: it is kept as 1, the smallest positive value.  Like the   *)
(* f64 exp it is monotone, exp(0) = 1, it is exactly 0 below -745.13 (the  *)
(* f64 underflow) and it is capped for arguments of 7.0 and more, where    *)
(* only its being greater than 1 is used.                                  *)
(***************************************************************************)
EXTENDS Integers, Sequences, FiniteSets, TLC

\* ------------------------------------------------------------------ bounds
\* Largest width and height a constructor is called with (0 is included).
MaxDim == 3
\* Largest number of sites of a constructed grid.
MaxCells == 4
\* Logical coordinates passed to get_index, get and set range over -MaxCoord..MaxCoord.
MaxCoord == 4
\* Coordinates passed to the energy functions and the update range over -1..MaxSite.
MaxSite == 2
\* Multiples of the dimensions used when periodicity is compared.
MaxK == 2
\* Side of the driver's square matrix (100 in main.rs, scaled down).
size == 2
\* Number of sweeps the driver runs (7000 in main.rs, scaled down).
number_of_sweeps == 2

Dims == 0..MaxDim
Shapes == {d \in Dims \X Dims : d[1] * d[2] <= MaxCells}
Coords == (0 - MaxCoord)..MaxCoord
SiteCoords == (0 - 1)..MaxSite
\* f64 arguments of the energy functions, in hundredths: 0.0, 1.0 and 100.0 for the
\* coupling (with 100.0 an energy difference of -800.0 makes exp underflow to 0.0),
\* -1.0, 0.0 and 1.0 for the field.
Couplings == {0, 100, 10000}
Fields == {0 - 100, 0, 100}
\* Outcomes of rand::random::<f64>() in millionths: 0.0 and 0.5.
RandomDraws == {0, 500000}

VARIABLES
  \* Grid (grid.rs)
  width, height, spins,
  \* position of the caller of the Grid: "new", "idle", "returned", "step", "panicked"
  pc,
  \* the call that has just run: its arguments, what it read and what it returned
  last,
  \* Grid::step: loop counters, arguments, sites updated so far, grid at sweep start
  sx, sy, stepArgs, visited, sweepStart,
  \* driver (main.rs)
  initial_configuration, updated_configuration, loop_i, loop_j, mpc, sweeps, used

gridVars == <<width, height, spins, pc, last, sx, sy, stepArgs, visited, sweepStart>>
mainVars == <<initial_configuration, updated_configuration, loop_i, loop_j, mpc, sweeps, used>>
vars == <<width, height, spins, pc, last, sx, sy, stepArgs, visited, sweepStart,
          initial_configuration, updated_configuration, loop_i, loop_j, mpc, sweeps, used>>

\* ------------------------------------------------------------------ spin.rs
Spin == {"Up", "Down"}

flip(s) == IF s = "Up" THEN "Down" ELSE "Up"

\* ------------------------------------------------------------------ numbers
\* Rust's % on i64: the remainder truncates toward zero (sign of the dividend).
TruncRem(a, b) == IF a >= 0 THEN a % b ELSE 0 - ((0 - a) % b)

Min(a, b) == IF a <= b THEN a ELSE b

Max(a, b) == IF a >= b THEN a ELSE b

\* exp(-q) in millionths, q = 1..13 (entry q)
ExpNegWhole == << 367879, 135335, 49787, 18315, 6737, 2478, 911, 335, 123, 45, 16, 6, 2 >>

\* exp(q) in thousandths, q = 0..6 (entry q+1)
ExpWhole == << 1000, 2718, 7389, 20085, 54598, 148413, 403428 >>

\* exp(r/100) in thousandths, r = 0..99 (entry r+1)
ExpFrac == <<
  1000, 1010, 1020, 1030, 1040, 1051, 1061, 1072, 1083, 1094,
  1105, 1116, 1127, 1138, 1150, 1161, 1173, 1185, 1197, 1209,
  1221, 1233, 1246, 1258, 1271, 1284, 1296, 1309, 1323, 1336,
  1349, 1363, 1377, 1390, 1404, 1419, 1433, 1447, 1462, 1476,
  1491, 1506, 1521, 1537, 1552, 1568, 1584, 1599, 1616, 1632,
  1648, 1665, 1682, 1698, 1716, 1733, 1750, 1768, 1786, 1803,
  1822, 1840, 1858, 1877, 1896, 1915, 1934, 1954, 1973, 1993,
  2013, 2033, 2054, 2075, 2095, 2117, 2138, 2159, 2181, 2203,
  2225, 2247, 2270, 2293, 2316, 2339, 2363, 2386, 2410, 2435,
  2459, 2484, 2509, 2534, 2559, 2585, 2611, 2637, 2664, 2691 >>

\* f64::exp of an argument in hundredths, result in millionths.
exp(c) ==
  LET q == c \div 100
      r == c % 100
  IN IF c < 0 - 74513 THEN 0
     ELSE IF q < 0 - 13 THEN 1
     ELSE IF q < 0 THEN Max(1, (ExpNegWhole[0 - q] * ExpFrac[r + 1]) \div 1000)
     ELSE IF q < 7 THEN ExpWhole[q + 1] * ExpFrac[r + 1]
     ELSE 2000000000

\* ------------------------------------------------------------------ grid.rs
\* Grid::get_index without the "+ width" normalisation (the truncating remainder alone).
get_index_trunc(x, y) ==
  TruncRem(y, height) * width + TruncRem(x, width)

\* Grid::get_index (the cast "as usize" is the identity on the non-negative result).
get_index(x, y) ==
  LET x_periodic == TruncRem(TruncRem(x, width) + width, width)
      y_periodic == TruncRem(TruncRem(y, height) + height, height)
  IN y_periodic * width + x_periodic

\* x % 0 panics (remainder with a divisor of zero); self.spins[index] panics when the
\* index is outside the vector.
IndexPanics(s, x, y) ==
  \/ width = 0
  \/ height = 0
  \/ get_index(x, y) + 1 \notin DOMAIN s

\* Grid::get
get(s, x, y) == s[get_index(x, y) + 1]

\* Grid::get_spin_as_float
get_spin_as_float(s, x, y) == IF get(s, x, y) = "Up" THEN 1 ELSE 0 - 1

\* Grid::set with the two coordinates exchanged.
set_swapped(s, x, y, spin) == [s EXCEPT ![get_index(y, x) + 1] = spin]

\* Grid::set, as a function of the spin storage
set(s, x, y, spin) == [s EXCEPT ![get_index(x, y) + 1] = spin]

\* The five reads of field_energy / interaction_energy panic when any of them does.
EnergyPanics(s, x, y) ==
  \/ IndexPanics(s, x, y)
  \/ IndexPanics(s, x, y + 1)
  \/ IndexPanics(s, x, y - 1)
  \/ IndexPanics(s, x - 1, y)
  \/ IndexPanics(s, x + 1, y)

\* The four neighbour spins in the order the energy functions read them.
Neighbours(s, x, y) ==
  << get(s, x, y + 1), get(s, x, y - 1), get(s, x - 1, y), get(s, x + 1, y) >>

\* Grid::field_energy
field_energy(s, x, y, field) ==
  LET our_spin == get_spin_as_float(s, x, y)
      upper_neighbor == get_spin_as_float(s, x, y + 1)
      lower_neighbor == get_spin_as_float(s, x, y - 1)
      left_neighbor == get_spin_as_float(s, x - 1, y)
      right_neighbor == get_spin_as_float(s, x + 1, y)
  IN (our_spin + upper_neighbor + lower_neighbor + left_neighbor + right_neighbor) * field

\* Grid::interaction_energy reading the right neighbour in place of the left one.
interaction_energy_right_twice(s, x, y, coupling) ==
  LET our_spin == get_spin_as_float(s, x, y)
      upper_neighbor == get_spin_as_float(s, x, y + 1)
      lower_neighbor == get_spin_as_float(s, x, y - 1)
      right_neighbor == get_spin_as_float(s, x + 1, y)
  IN (0 - coupling) * our_spin
       * (upper_neighbor + lower_neighbor + right_neighbor + right_neighbor)

\* Grid::interaction_energy
interaction_energy(s, x, y, coupling) ==
  LET our_spin == get_spin_as_float(s, x, y)
      upper_neighbor == get_spin_as_float(s, x, y + 1)
      lower_neighbor == get_spin_as_float(s, x, y - 1)
      left_neighbor == get_spin_as_float(s, x - 1, y)
      right_neighbor == get_spin_as_float(s, x + 1, y)
  IN (0 - coupling) * our_spin
       * (upper_neighbor + lower_neighbor + left_neighbor + right_neighbor)

\* Grid::total_energy
total_energy(s, x, y, coupling, field) ==
  interaction_energy(s, x, y, coupling) + field_energy(s, x, y, field)

\* Grid::single_site_step with the tentative flip written to the right neighbour.
single_site_step_flip_right(s, x, y, coupling, field, random_number) ==
  LET current_energy == total_energy(s, x, y, coupling, field)
      current_spin == get(s, x, y)
      new_spin == flip(current_spin)
      flipped == set(s, x + 1, y, new_spin)
      new_energy == total_energy(flipped, x, y, coupling, field)
      probability_of_acceptance == Min(0 - exp(new_energy - current_energy), 1000000)
  IN [ spins |-> IF random_number > probability_of_acceptance
                 THEN set(flipped, x, y, current_spin)
                 ELSE flipped,
       current_energy |-> current_energy,
       new_energy |-> new_energy,
       current_spin |-> current_spin,
       before |-> Neighbours(s, x, y),
       after |-> Neighbours(flipped, x, y) ]

\* Grid::single_site_step: the storage after the call, with the values the call
\* computed and the neighbour spins its two energy computations read.
single_site_step(s, x, y, coupling, field, random_number) ==
  LET current_energy == total_energy(s, x, y, coupling, field)
      current_spin == get(s, x, y)
      new_spin == flip(current_spin)
      flipped == set(s, x, y, new_spin)
      new_energy == total_energy(flipped, x, y, coupling, field)
      \* (-(new_energy - current_energy).exp()).min(1.0): the method call binds
      \* tighter than the unary minus, so this is min(-(exp(dE)), 1.0).
      probability_of_acceptance == Min(0 - exp(new_energy - current_energy), 1000000)
  IN [ spins |-> IF random_number > probability_of_acceptance
                 THEN set(flipped, x, y, current_spin)
                 ELSE flipped,
       current_energy |-> current_energy,
       new_energy |-> new_energy,
       current_spin |-> current_spin,
       before |-> Neighbours(s, x, y),
       after |-> Neighbours(flipped, x, y) ]

NoCall == [op |-> "none"]

Panic ==
  /\ pc' = "panicked"
  /\ last' = NoCall
  /\ UNCHANGED <<width, height, spins, sx, sy, stepArgs, visited, sweepStart>>

\* Grid::new_random
NewRandom(w, h) ==
  /\ pc = "new"
  /\ width' = w
  /\ height' = h
  /\ spins' \in [1..(w * h) -> Spin]
  /\ pc' = "idle"
  /\ UNCHANGED <<last, sx, sy, stepArgs, visited, sweepStart>>
  /\ UNCHANGED mainVars

\* Grid::new_constant
NewConstant(w, h, spin) ==
  /\ pc = "new"
  /\ width' = w
  /\ height' = h
  /\ spins' = [i \in 1..(w * h) |-> spin]
  /\ pc' = "idle"
  /\ UNCHANGED <<last, sx, sy, stepArgs, visited, sweepStart>>
  /\ UNCHANGED mainVars

\* A call of Grid::get_index
GetIndex(x, y) ==
  /\ pc = "idle"
  /\ IF width = 0 \/ height = 0
     THEN Panic
     ELSE /\ last' = [op |-> "get_index", x |-> x, y |-> y, ret |-> get_index(x, y)]
          /\ pc' = "returned"
          /\ UNCHANGED <<width, height, spins, sx, sy, stepArgs, visited, sweepStart>>
  /\ UNCHANGED mainVars

\* A call of Grid::get
Get(x, y) ==
  /\ pc = "idle"
  /\ IF IndexPanics(spins, x, y)
     THEN Panic
     ELSE /\ last' = [op |-> "get", x |-> x, y |-> y, ret |-> get(spins, x, y)]
          /\ pc' = "returned"
          /\ UNCHANGED <<width, height, spins, sx, sy, stepArgs, visited, sweepStart>>
  /\ UNCHANGED mainVars

\* A call of Grid::set
Set(x, y, spin) ==
  /\ pc = "idle"
  /\ IF IndexPanics(spins, x, y)
     THEN Panic
     ELSE /\ spins' = set(spins, x, y, spin)
          /\ last' = [op |-> "set", x |-> x, y |-> y, spin |-> spin,
                      pre |-> spins, preWidth |-> width, preHeight |-> height]
          /\ pc' = "returned"
          /\ UNCHANGED <<width, height, sx, sy, stepArgs, visited, sweepStart>>
  /\ UNCHANGED mainVars

\* A call of Grid::field_energy
FieldEnergy(x, y, field) ==
  /\ pc = "idle"
  /\ IF EnergyPanics(spins, x, y)
     THEN Panic
     ELSE /\ last' = [op |-> "field_energy", x |-> x, y |-> y, field |-> field,
                      ret |-> field_energy(spins, x, y, field)]
          /\ pc' = "returned"
          /\ UNCHANGED <<width, height, spins, sx, sy, stepArgs, visited, sweepStart>>
  /\ UNCHANGED mainVars

\* A call of Grid::interaction_energy
InteractionEnergy(x, y, coupling) ==
  /\ pc = "idle"
  /\ IF EnergyPanics(spins, x, y)
     THEN Panic
     ELSE /\ last' = [op |-> "interaction_energy", x |-> x, y |-> y,
                      coupling |-> coupling,
                      ret |-> interaction_energy(spins, x, y, coupling)]
          /\ pc' = "returned"
          /\ UNCHANGED <<width, height, spins, sx, sy, stepArgs, visited, sweepStart>>
  /\ UNCHANGED mainVars

\* A call of Grid::single_site_step from outside a sweep
SingleSiteStep(x, y, coupling, field) ==
  /\ pc = "idle"
  /\ IF EnergyPanics(spins, x, y)
     THEN Panic
     ELSE \E random_number \in RandomDraws :
            \E u \in {single_site_step(spins, x, y, coupling, field, random_number)} :
               /\ spins' = u.spins
               /\ last' = [op |-> "single_site_step", x |-> x, y |-> y,
                           pre |-> spins,
                           current_energy |-> u.current_energy,
                           new_energy |-> u.new_energy,
                           current_spin |-> u.current_spin,
                           before |-> u.before, after |-> u.after]
               /\ pc' = "returned"
               /\ UNCHANGED <<width, height, sx, sy, stepArgs, visited, sweepStart>>
  /\ UNCHANGED mainVars

\* The call returns and its caller goes on.
Return ==
  /\ pc = "returned"
  /\ pc' = "idle"
  /\ last' = NoCall
  /\ UNCHANGED <<width, height, spins, sx, sy, stepArgs, visited, sweepStart>>
  /\ UNCHANGED mainVars

\* Grid::step is entered: y = 0, x = 0
StepBegin(coupling, field) ==
  /\ pc = "idle"
  /\ pc' = "step"
  /\ sy' = 0
  /\ sx' = 0
  /\ stepArgs' = [coupling |-> coupling, field |-> field]
  /\ visited' = << >>
  /\ sweepStart' = spins
  /\ last' = NoCall
  /\ UNCHANGED <<width, height, spins>>
  /\ UNCHANGED mainVars

\* Grid::step's body computing every update from the grid as it was when the sweep
\* began (a synchronous sweep) and writing the outcome into the live grid.
StepSiteSynchronous ==
  /\ pc = "step"
  /\ sy < height
  /\ sx < width
  /\ IF EnergyPanics(spins, sx, sy)
     THEN Panic
     ELSE \E random_number \in RandomDraws :
       \E u \in {single_site_step(sweepStart, sx, sy, stepArgs.coupling,
                                  stepArgs.field, random_number)} :
          /\ spins' = set(spins, sx, sy, get(u.spins, sx, sy))
          /\ last' = [op |-> "step_site", x |-> sx, y |-> sy, pre |-> spins,
                      current_energy |-> u.current_energy,
                      new_energy |-> u.new_energy,
                      current_spin |-> u.current_spin,
                      before |-> u.before, after |-> u.after]
          /\ visited' = Append(visited, <<sx, sy>>)
          /\ sx' = sx + 1
          /\ UNCHANGED <<width, height, pc, sy, stepArgs, sweepStart>>
  /\ UNCHANGED mainVars

\* Grid::step, the inner loop is exhausted, with the row counter left as it is and the
\* column counter not reset: the loop makes no progress.
StepRowEndStuck ==
  /\ pc = "step"
  /\ sy < height
  /\ sx >= width
  /\ sx' = width
  /\ UNCHANGED <<width, height, spins, pc, last, sy, stepArgs, visited, sweepStart>>
  /\ UNCHANGED mainVars

\* Grid::step, body of the inner loop: single_site_step(x, y), then x += 1
StepSite ==
  /\ pc = "step"
  /\ sy < height
  /\ sx < width
  /\ IF EnergyPanics(spins, sx, sy)
     THEN Panic
     ELSE \E random_number \in RandomDraws :
       \E u \in {single_site_step(spins, sx, sy, stepArgs.coupling,
                                  stepArgs.field, random_number)} :
          /\ spins' = u.spins
          /\ last' = [op |-> "step_site", x |-> sx, y |-> sy, pre |-> spins,
                      current_energy |-> u.current_energy,
                      new_energy |-> u.new_energy,
                      current_spin |-> u.current_spin,
                      before |-> u.before, after |-> u.after]
          /\ visited' = Append(visited, <<sx, sy>>)
          /\ sx' = sx + 1
          /\ UNCHANGED <<width, height, pc, sy, stepArgs, sweepStart>>
  /\ UNCHANGED mainVars

\* Grid::step, the inner loop is exhausted: y += 1, x = 0
StepRowEnd ==
  /\ pc = "step"
  /\ sy < height
  /\ sx >= width
  /\ sy' = sy + 1
  /\ sx' = 0
  /\ UNCHANGED <<width, height, spins, pc, last, stepArgs, visited, sweepStart>>
  /\ UNCHANGED mainVars

\* Grid::step, the outer loop is exhausted: the call returns
StepEnd ==
  /\ pc = "step"
  /\ sy >= height
  /\ pc' = "returned"
  /\ last' = [op |-> "step", pre |-> sweepStart, visited |-> visited]
  /\ sx' = 0
  /\ sy' = 0
  /\ stepArgs' = [coupling |-> 0, field |-> 0]
  /\ visited' = << >>
  /\ sweepStart' = << >>
  /\ UNCHANGED <<width, height, spins>>
  /\ UNCHANGED mainVars

MainIdle ==
  /\ initial_configuration = << >>
  /\ updated_configuration = << >>
  /\ loop_i = 0
  /\ loop_j = 0
  /\ mpc = "off"
  /\ sweeps = 0
  /\ used = NoCall

GridIdle ==
  /\ width = 0
  /\ height = 0
  /\ spins = << >>
  /\ last = NoCall
  /\ sx = 0
  /\ sy = 0
  /\ stepArgs = [coupling |-> 0, field |-> 0]
  /\ visited = << >>
  /\ sweepStart = << >>

\* Before a Grid is constructed.
Init ==
  /\ GridIdle
  /\ pc = "new"
  /\ MainIdle

Next ==
  \/ \E d \in Shapes : NewRandom(d[1], d[2])
  \/ \E d \in Shapes, spin \in Spin : NewConstant(d[1], d[2], spin)
  \/ \E x \in Coords, y \in Coords : GetIndex(x, y)
  \/ \E x \in Coords, y \in Coords : Get(x, y)
  \/ \E x \in Coords, y \in Coords, spin \in Spin : Set(x, y, spin)
  \/ \E x \in SiteCoords, y \in SiteCoords, field \in Fields : FieldEnergy(x, y, field)
  \/ \E x \in SiteCoords, y \in SiteCoords, coupling \in Couplings :
       InteractionEnergy(x, y, coupling)
  \/ \E x \in SiteCoords, y \in SiteCoords, coupling \in Couplings, field \in Fields :
       SingleSiteStep(x, y, coupling, field)
  \/ Return
  \/ \E coupling \in Couplings, field \in Fields : StepBegin(coupling, field)
  \/ StepSite
  \/ StepRowEnd
  \/ StepEnd

Spec == Init /\ [][Next]_vars

\* Grid::step is a plain loop on one thread: once entered, the step of it that can
\* run does run.
LiveSpec ==
  /\ Init
  /\ [][Next]_vars
  /\ WF_vars(StepSite \/ StepRowEnd \/ StepEnd)

\* ------------------------------------------------------------------ main.rs
\* coupling_between_neighboring_spins = 0.44, in hundredths
coupling_between_neighboring_spins == 44
\* applied_field = 0.02, in hundredths
applied_field == 2

Rows == 0..(size - 1)
Matrices == [Rows -> [Rows -> {0 - 1, 1}]]

GridOff ==
  /\ GridIdle
  /\ pc = "off"

\* main: the random initial configuration, before the first sweep
MainInit ==
  /\ GridOff
  /\ initial_configuration \in Matrices
  /\ updated_configuration = << >>
  /\ loop_i = 0
  /\ loop_j = 0
  /\ mpc = "main"
  /\ sweeps = 0
  /\ used = NoCall

\* main calls sweep; sweep clones its argument and starts at i = 0, j = 0
SweepCall ==
  /\ mpc = "main"
  /\ sweeps < number_of_sweeps
  /\ updated_configuration' = initial_configuration
  /\ loop_i' = 0
  /\ loop_j' = 0
  /\ mpc' = "sweep"
  /\ used' = NoCall
  /\ UNCHANGED <<initial_configuration, sweeps>>
  /\ UNCHANGED gridVars

\* sweep, body of the inner loop at (i, j), then j += 1
SweepSite ==
  /\ mpc = "sweep"
  /\ loop_i < size
  /\ loop_j < size
  /\ LET i == loop_i
         j == loop_j
         spin_up == initial_configuration[i][IF j = size - 1 THEN 0 ELSE j + 1]
         spin_down == initial_configuration[i][IF j = 0 THEN size - 1 ELSE j - 1]
         spin_left == initial_configuration[IF i = 0 THEN size - 1 ELSE i - 1][j]
         spin_right == initial_configuration[IF i = size - 1 THEN 0 ELSE i + 1][j]
         initial_spin == initial_configuration[i][j]
         final_spin == 0 - initial_spin
         initial_energy ==
           (0 - coupling_between_neighboring_spins)
              * (initial_spin * (spin_up + spin_down + spin_left + spin_right))
           - applied_field * initial_spin
         final_energy ==
           (0 - coupling_between_neighboring_spins)
              * (final_spin * (spin_up + spin_down + spin_left + spin_right))
           - applied_field * final_spin
         change_in_energy == final_energy - initial_energy
         probability_of_change == exp(0 - change_in_energy)
     IN /\ \/ /\ change_in_energy < 0
              /\ updated_configuration' =
                   [updated_configuration EXCEPT ![i][j] = final_spin]
           \/ /\ change_in_energy >= 0
              /\ \E random_number \in RandomDraws :
                   IF random_number < probability_of_change
                   THEN updated_configuration' =
                          [updated_configuration EXCEPT ![i][j] = final_spin]
                   ELSE UNCHANGED updated_configuration
        /\ used' = [op |-> "site", i |-> i, j |-> j,
                    neighbours |-> <<spin_up, spin_down, spin_left, spin_right>>]
  /\ loop_j' = loop_j + 1
  /\ UNCHANGED <<initial_configuration, loop_i, mpc, sweeps>>
  /\ UNCHANGED gridVars

\* sweep, the inner loop is exhausted: i += 1, j = 0
SweepRowEnd ==
  /\ mpc = "sweep"
  /\ loop_i < size
  /\ loop_j >= size
  /\ loop_i' = loop_i + 1
  /\ loop_j' = 0
  /\ UNCHANGED <<initial_configuration, updated_configuration, mpc, sweeps, used>>
  /\ UNCHANGED gridVars

\* sweep returns updated_configuration, which main assigns to initial_configuration
SweepReturn ==
  /\ mpc = "sweep"
  /\ loop_i >= size
  /\ initial_configuration' = updated_configuration
  /\ updated_configuration' = << >>
  /\ loop_i' = 0
  /\ loop_j' = 0
  /\ sweeps' = sweeps + 1
  /\ mpc' = "main"
  /\ used' = NoCall
  /\ UNCHANGED gridVars

\* main, after the last sweep: the sample element is printed
MainDone ==
  /\ mpc = "main"
  /\ sweeps >= number_of_sweeps
  /\ mpc' = "done"
  /\ UNCHANGED <<initial_configuration, updated_configuration, loop_i, loop_j, sweeps, used>>
  /\ UNCHANGED gridVars

MainNext ==
  \/ SweepCall
  \/ SweepSite
  \/ SweepRowEnd
  \/ SweepReturn
  \/ MainDone

MainSpec == MainInit /\ [][MainNext]_vars

\* ------------------------------------------------------------------ properties
\* What the properties are stated with: the mathematical (non-negative) modulo, which
\* is TLA+'s %, and the storage read through it.
TrueIndex(x, y) == (y % height) * width + (x % width)

SpinValue(s, x, y) == IF s[TrueIndex(x, y) + 1] = "Up" THEN 1 ELSE 0 - 1

TrueNeighbours(s, x, y) ==
  << s[TrueIndex(x, y + 1) + 1], s[TrueIndex(x, y - 1) + 1],
     s[TrueIndex(x - 1, y) + 1], s[TrueIndex(x + 1, y) + 1] >>

AllUp(s) == \A i \in DOMAIN s : s[i] = "Up"

Updates == {"single_site_step", "step_site"}

Multiples == (0 - MaxK)..MaxK

\* C1: whenever a single-site update finds that the flip lowers the site's total
\* energy (new_energy < current_energy), the site holds the flipped spin after the
\* call, whatever the random draw.
C1_LoweringFlipAccepted ==
  (last.op \in Updates /\ last.new_energy < last.current_energy)
    => get(spins, last.x, last.y) = flip(last.current_spin)

\* C2: on an all-Up grid, field_energy(x, y, 1.0) returns 4.0 at every coordinate.
C2_FieldEnergyAllUp ==
  (last.op = "field_energy" /\ last.field = 100 /\ AllUp(spins))
    => last.ret = 400

\* C3: on a grid with positive dimensions get_index(x, y) is
\* (y mod height) * width + (x mod width) with non-negative remainders, lies in
\* [0, width * height), and get_index and get are unchanged by adding any multiple
\* (negative ones included) of width to x or of height to y.
C3_PeriodicIndex ==
  (last.op = "get_index" /\ width > 0 /\ height > 0)
    => /\ last.ret = TrueIndex(last.x, last.y)
       /\ last.ret \in 0..(width * height - 1)
       /\ \A k \in Multiples :
            /\ get_index(last.x + k * width, last.y) = last.ret
            /\ get_index(last.x, last.y + k * height) = last.ret
            /\ get(spins, last.x + k * width, last.y) = get(spins, last.x, last.y)
            /\ get(spins, last.x, last.y + k * height) = get(spins, last.x, last.y)

\* C3 witness: get_index of a negative x on a grid at least 2 wide returned the last
\* column (the analogue of (-1, 0) -> 49 on the 50 x 50 grid).
C3_Witness ==
  /\ last.op = "get_index"
  /\ width >= 2
  /\ last.x = 0 - 1
  /\ last.y = 0
  /\ last.ret = width - 1

\* C4: after set(x, y, s) every coordinate congruent to (x, y) modulo (width, height)
\* reads s, every other coordinate reads what it read before, at most one stored spin
\* differs from before, and width, height and the storage size are unchanged.
C4_SetOneSite ==
  last.op = "set"
    => /\ width = last.preWidth
       /\ height = last.preHeight
       /\ DOMAIN spins = DOMAIN last.pre
       /\ Cardinality({i \in DOMAIN spins : spins[i] # last.pre[i]}) <= 1
       /\ \A i \in DOMAIN spins : i # TrueIndex(last.x, last.y) + 1 => spins[i] = last.pre[i]
       /\ \A xx \in Coords, yy \in Coords :
            IF (xx - last.x) % width = 0 /\ (yy - last.y) % height = 0
            THEN get(spins, xx, yy) = last.spin
            ELSE get(spins, xx, yy) = get(last.pre, xx, yy)

\* C4 witness: a set at a wrapped (out of range) coordinate changed the stored spin
\* of a grid with several sites.
C4_Witness ==
  /\ last.op = "set"
  /\ width >= 2
  /\ height >= 2
  /\ last.x < 0
  /\ last.y >= height
  /\ spins # last.pre

\* C5: every constructed Grid has width > 0 and height > 0, and no access to a
\* constructed Grid fails.
C5_PositiveDimensions ==
  /\ pc # "new" => (width > 0 /\ height > 0)
  /\ pc # "panicked"

\* C6: Grid::step, once entered on a grid with positive dimensions, returns; and
\* through every sequence of set, single_site_step and step calls the width and the
\* height stay what construction made them and the storage holds exactly
\* width * height spins.
C6_StepTerminatesPreservesSize ==
  /\ ((pc = "step" /\ width > 0 /\ height > 0) ~> (pc = "returned" /\ last.op = "step"))
  /\ [](pc # "new" => DOMAIN spins = 1..(width * height))
  /\ [][pc # "new" => (width' = width /\ height' = height)]_vars

\* C6 witness: a step has returned on a grid with two rows and two columns after
\* updating all its sites.
C6_Witness ==
  /\ last.op = "step"
  /\ width >= 2
  /\ height >= 2
  /\ Len(last.visited) = width * height
  /\ DOMAIN spins = 1..(width * height)

\* C7: interaction_energy(x, y, J) is -J * s(x,y) * (s(x,y+1) + s(x,y-1) + s(x-1,y)
\* + s(x+1,y)) with the neighbours taken modulo the dimensions; on an all-Up grid
\* with J = 1.0 it is -4.0 at every coordinate.
C7_InteractionEnergy ==
  last.op = "interaction_energy"
    => /\ last.ret =
            (0 - last.coupling) * SpinValue(spins, last.x, last.y)
              * ( SpinValue(spins, last.x, last.y + 1)
                  + SpinValue(spins, last.x, last.y - 1)
                  + SpinValue(spins, last.x - 1, last.y)
                  + SpinValue(spins, last.x + 1, last.y) )
       /\ (AllUp(spins) /\ last.coupling = 100) => last.ret = 0 - 400

\* C7 witness: interaction_energy with J = 1.0 returned -4.0 on an all-Up grid, at a
\* coordinate whose left neighbour wraps around.
C7_Witness ==
  /\ last.op = "interaction_energy"
  /\ last.coupling = 100
  /\ AllUp(spins)
  /\ width >= 2
  /\ last.x = 0
  /\ last.ret = 0 - 400

RowMajor(n) == [k \in 1..n |-> <<(k - 1) % width, (k - 1) \div width>>]

\* C8: Grid::step updates the sites in row-major order, each exactly once, and each
\* update reads its neighbours from the grid as the earlier updates of the same sweep
\* left it.
C8_SequentialRowMajor ==
  /\ pc = "step" => visited = RowMajor(Len(visited))
  /\ last.op = "step_site"
       => /\ Len(visited) >= 1
          /\ visited[Len(visited)] = <<last.x, last.y>>
          /\ last.before = TrueNeighbours(last.pre, last.x, last.y)
          /\ \A i \in DOMAIN spins :
               i # TrueIndex(last.x, last.y) + 1 => spins[i] = last.pre[i]
  /\ last.op = "step" => last.visited = RowMajor(width * height)

\* C8 witness: an update inside a sweep read a neighbour that an earlier update of
\* the same sweep had changed.
C8_Witness ==
  /\ pc = "step"
  /\ last.op = "step_site"
  /\ last.before # TrueNeighbours(sweepStart, last.x, last.y)
  /\ last.before = TrueNeighbours(last.pre, last.x, last.y)

\* C9 as stated: in every single-site update, on every grid with positive dimensions,
\* the four neighbour spins read by the second energy computation are the ones read
\* by the first.
C9_NeighboursUnchanged ==
  (last.op \in Updates /\ width > 0 /\ height > 0)
    => last.before = last.after

\* C9 amended: the same on grids with width >= 2 and height >= 2, where the site is
\* not its own neighbour.
C9_NeighboursUnchangedWide ==
  (last.op \in Updates /\ width >= 2 /\ height >= 2)
    => last.before = last.after

\* C9 witness: a single-site update ran on a 2 x 2 grid at a wrapped coordinate.
C9_Witness ==
  /\ last.op = "single_site_step"
  /\ width >= 2
  /\ height >= 2
  /\ last.x = 0 - 1
  /\ last.before = last.after

\* C10: when the driver's sweep processes site (i, j), the neighbour spins it uses are
\* the ones the sweep has already updated (for the neighbours processed earlier in the
\* sweep, the updated values; for the others, which are still unchanged, the same).
C10_DriverSweepSequential ==
  (mpc = "sweep" /\ used.op = "site")
    => LET i == used.i
           j == used.j
       IN used.neighbours =
            << updated_configuration[i][(j + 1) % size],
               updated_configuration[i][(j - 1) % size],
               updated_configuration[(i - 1) % size][j],
               updated_configuration[(i + 1) % size][j] >>
====
